---- MODULE Spec2Model ----
(***************************************************************************)
(* Model of the vote handler of SponsorBlockServer,                        *)
(* src/routes/voteOnSponsorTime.ts: one segment of one video, the tables   *)
(* the handler reads and writes, and one action per request, which runs    *)
(* the whole handler (voteOnSponsorTime, and categoryVote when it is       *)
(* dispatched to) from the request to the response.                        *)
(***************************************************************************)
EXTENDS Integers, Sequences, FiniteSets, TLC

\* ------------------------------------------------------------------ bounds
\* Number of requests processed in one behaviour: of any kind (Spec), of
\* score votes alone (SpecScore), of category votes alone (SpecCategory).
MaxRequests == 2
MaxScoreRequests == 3
MaxCategoryRequests == 4

\* Number of score-vote requests whose steps interleave in one behaviour of
\* SpecConcurrent.
MaxInFlight == 2

\* ------------------------------------------------------- request parameters
\* A missing query parameter, and a row a 'get' did not find.
undefined == <<>>

\* Raw user identifiers (req.query.userID) of the modelled callers.
Users == {"owner", "vip", "u1", "u2"}

\* Client addresses getIP can return for each caller: every caller has an
\* address of their own, and u2 can also come from the address of u1.
IPAddressesOf(paramUserID) ==
    IF paramUserID = "u2" THEN {"ip-u2", "ip-u1"}
    ELSE {"ip-" \o paramUserID}

\* req.query.UUID: the one segment of the model.
SegmentUUID == "segment"

\* req.query.type after parseInt: the five vote kinds and one code the
\* handler does not recognise.
VoteTypeCodes == {0, 1, 10, 11, 20, 5}

\* config.categoryList, and the categories getCategoryActionType classifies
\* as Skippable.
categoryList == {"sponsor", "selfpromo", "intro", "highlight"}

\* Every configured category classified as Skippable.
SkippableCategoriesAll == categoryList

SkippableCategories == {"sponsor", "selfpromo", "intro"}

\* req.query.category: the configured categories and one outside the list.
CategoryParams == categoryList \cup {"bogus"}

\* The category the segment was submitted with.
SubmittedCategory == "sponsor"

\* Score of the segment when the behaviour starts: freshly submitted, or
\* already voted up or down by voters outside Users, whose addresses are
\* not those of Users.
StartingScores == {-3, 0, 5}

\* ----------------------------------------------------------------- hashing
\* getHash: a one-way, collision-free digest of its argument.
getHash(value) == <<"sha256", value>>

UserIDs == {getHash(u) : u \in Users}

\* ------------------------------------------------------------------- state
VARIABLES
    sponsorTimes,         \* db "sponsorTimes": the row of the segment
    submitters,           \* db "sponsorTimes": userIDs owning other rows
    vipUsers,             \* db "vipUsers": set of userIDs
    lockCategories,       \* db "lockCategories": locked categories of the video
    warnings,             \* db "warnings": active warnings per userID
    shadowBannedUsers,    \* privateDB "shadowBannedUsers": set of userIDs
    votes,                \* privateDB "votes": bag of ledger rows
    categoryVotes,        \* db "categoryVotes": category -> votes, rows only
    privateCategoryVotes, \* privateDB "categoryVotes": bag of rows
    last,                 \* the last request, its response, the rows it read
    contribution,         \* per caller: sum of the deltas applied to "votes"
    requests,             \* number of requests processed
    inflight              \* the requests handled step by step: their locals

vars == <<sponsorTimes, submitters, vipUsers, lockCategories, warnings,
          shadowBannedUsers, votes, categoryVotes, privateCategoryVotes,
          last, contribution, requests, inflight>>

\* ------------------------------------------------------------ store: bags
\* A table without a key is a bag of rows: a function row -> count > 0.
RECURSIVE SumOver(_, _)
SumOver(bag, rows) ==
    IF rows = {} THEN 0
    ELSE LET r == CHOOSE x \in rows : TRUE
         IN bag[r] + SumOver(bag, rows \ {r})

\* INSERT INTO table VALUES (row)
Insert(bag, row) ==
    IF row \in DOMAIN bag THEN [bag EXCEPT ![row] = @ + 1]
    ELSE bag @@ (row :> 1)

\* UPDATE table SET ... : every row r becomes change[r]
Update(bag, change) ==
    LET images == {change[r] : r \in DOMAIN bag}
    IN [s \in images |-> SumOver(bag, {r \in DOMAIN bag : change[r] = s})]

\* Number of rows of the bag that are in the set where.
Count(bag, where) == SumOver(bag, DOMAIN bag \cap where)

\* prepare('get', ...): the rows a get can return, <<row>> for a row found
\* and undefined when none matches. With several matching rows the store
\* returns any one of them.
Get(bag, where) ==
    IF DOMAIN bag \cap where # {}
    THEN {<<r>> : r \in DOMAIN bag \cap where}
    ELSE {undefined}

\* ---------------------------------------------------------- score votes
\* voteTypes
voteTypesNormal == 0
voteTypesIncorrect == 1

\* The counter family of a vote kind.
voteTypeEnumOf(type) ==
    IF type = 0 \/ type = 1 THEN voteTypesNormal ELSE voteTypesIncorrect

\* The vote kinds the handler recognises; any other code is answered 400.
RecognisedTypes == {1, 11, 0, 10, 20}

\* incrementAmount of the requested vote kind, before privilege scaling.
incrementAmountOf(type) ==
    IF type = 1 \/ type = 11 THEN 1
    ELSE IF type = 0 \/ type = 10 THEN -1
    ELSE 0

\* oldIncrementAmountOf without the branch of a recorded plain downvote.
oldIncrementAmountWithoutDownvote(votesRow, type) ==
    IF votesRow = undefined THEN 0
    ELSE LET stored == votesRow[1].type
         IN IF stored = 1 \/ type = 11 THEN 1
            ELSE IF type = 10 THEN -1
            ELSE IF stored = 2 THEN -4
            ELSE IF stored = 20 THEN 0
            ELSE IF stored < 0 THEN stored
            ELSE IF stored = 12 THEN -500
            ELSE IF stored = 13 THEN 500
            ELSE 0

\* oldIncrementAmount: the weight decoded from the voter's ledger row;
\* the first two branches also look at the type of the new request.
oldIncrementAmountOf(votesRow, type) ==
    IF votesRow = undefined THEN 0
    ELSE LET stored == votesRow[1].type
         IN IF stored = 1 \/ type = 11 THEN 1
            ELSE IF stored = 0 \/ type = 10 THEN -1
            ELSE IF stored = 2 THEN -4
            ELSE IF stored = 20 THEN 0
            ELSE IF stored < 0 THEN stored
            ELSE IF stored = 12 THEN -500
            ELSE IF stored = 13 THEN 500
            ELSE 0

\* privilegedDownvote without the voter's old weight.
privilegedDownvoteWithoutOld(segmentVotes, oldIncrementAmount) ==
    -(segmentVotes + 2)

\* The downvote of a VIP or of the segment's owner: the weight that brings
\* the score to the hidden threshold.
privilegedDownvote(segmentVotes, oldIncrementAmount) ==
    -(segmentVotes + 2 - oldIncrementAmount)

\* scaledIncrementAmount without the rule for privileged plain downvotes.
scaledIncrementAmountPlain(type, privileged, oldIncrementAmount, segmentVotes) ==
    LET incrementAmount == incrementAmountOf(type)
    IN IF voteTypeEnumOf(type) = voteTypesNormal
       THEN incrementAmount
       ELSE IF privileged THEN 500 * incrementAmount ELSE incrementAmount

\* incrementAmount after the privilege rules.
scaledIncrementAmount(type, privileged, oldIncrementAmount, segmentVotes) ==
    LET incrementAmount == incrementAmountOf(type)
    IN IF voteTypeEnumOf(type) = voteTypesNormal
       THEN IF privileged /\ incrementAmount < 0
            THEN privilegedDownvote(segmentVotes, oldIncrementAmount)
            ELSE incrementAmount
       ELSE IF privileged THEN 500 * incrementAmount ELSE incrementAmount

\* The type code written to the ledger.
storedTypeOf(type, privileged, scaled) ==
    IF voteTypeEnumOf(type) = voteTypesNormal
    THEN IF privileged /\ incrementAmountOf(type) < 0 THEN scaled ELSE type
    ELSE IF privileged THEN (IF scaled < 0 THEN 12 ELSE 13) ELSE type

\* hiddenSegmentCheck with the threshold off by one.
hiddenSegmentCheckBelow(type, isVIP, isOwnSubmission, segmentVotes) ==
    IF ~isVIP /\ ~isOwnSubmission /\ segmentVotes < -2
    THEN IF type = 1 THEN <<403>>
         ELSE IF type = 0 THEN <<200>>
         ELSE undefined
    ELSE undefined

\* The check on votes for a hidden segment: <<status>> when the handler
\* answers at once, undefined when it goes on.
hiddenSegmentCheck(type, isVIP, isOwnSubmission, segmentVotes) ==
    IF ~isVIP /\ ~isOwnSubmission /\ segmentVotes <= -2
    THEN IF type = 1 THEN <<403>>
         ELSE IF type = 0 THEN <<200>>
         ELSE undefined
    ELSE undefined

\* config.maxNumberOfActiveWarnings
maxNumberOfActiveWarnings == 1

\* The warning check: TRUE when the vote is rejected.
rejectedByWarnings(warningsCount) == warningsCount >= maxNumberOfActiveWarnings

\* lockCheck that never rejects.
lockCheckOpen(isVIP, type, isSegmentLocked, isVideoLocked) == 200

\* The lock check made for every request of a non-VIP that is not a plain
\* upvote: the status the handler will answer with unless it returns early.
lockCheck(isVIP, type, isSegmentLocked, isVideoLocked) ==
    IF ~isVIP /\ type # <<1>> /\ (isSegmentLocked \/ isVideoLocked)
    THEN 403 ELSE 200

\* ableToVoteScore without the shadow-ban registry.
ableToVoteScoreWithoutBan(isVIP, isOwnSubmission, incrementAmount, hasSubmitted, isShadowBanned, sameIPVote, finalStatus) ==
    \/ isVIP
    \/ /\ ~(isOwnSubmission /\ incrementAmount > 0)
       /\ hasSubmitted
       /\ ~sameIPVote
       /\ finalStatus = 200

\* ableToVote of the score path.
ableToVoteScore(isVIP, isOwnSubmission, incrementAmount, hasSubmitted, isShadowBanned, sameIPVote, finalStatus) ==
    \/ isVIP
    \/ /\ ~(isOwnSubmission /\ incrementAmount > 0)
       /\ hasSubmitted
       /\ ~isShadowBanned
       /\ ~sameIPVote
       /\ finalStatus = 200

\* recordVote that inserts a row for every vote.
recordVoteAlwaysInsert(table, votesRow, userID, hashedIP, type) ==
    Insert(table, [UUID |-> SegmentUUID, userID |-> userID,
                   hashedIP |-> hashedIP, type |-> type])

\* The ledger write: update the voter's row when the get found one, insert
\* a row otherwise.
recordVote(table, votesRow, userID, hashedIP, type) ==
    IF votesRow # undefined
    THEN Update(table, [r \in DOMAIN table |->
             IF r.userID = userID /\ r.UUID = SegmentUUID
             THEN [r EXCEPT !.type = type] ELSE r])
    ELSE Insert(table, [UUID |-> SegmentUUID, userID |-> userID,
                        hashedIP |-> hashedIP, type |-> type])

\* The counter the delta goes to.
columnNameOf(voteTypeEnum) ==
    IF voteTypeEnum = voteTypesNormal THEN "votes" ELSE "incorrectVotes"

\* The segment row after the counter update and the VIP lock rules.
applyVote(row, voteTypeEnum, isVIP, incrementAmount, oldIncrementAmount) ==
    LET counted == [row EXCEPT ![columnNameOf(voteTypeEnum)] =
                        @ + (incrementAmount - oldIncrementAmount)]
    IN IF isVIP /\ incrementAmount > 0 /\ voteTypeEnum = voteTypesNormal
       THEN [counted EXCEPT !.locked = 1]
       ELSE IF isVIP /\ incrementAmount < 0 /\ voteTypeEnum = voteTypesNormal
       THEN [counted EXCEPT !.locked = 0]
       ELSE counted

\* -------------------------------------------------------- category votes
\* voteAmount of a category vote.
voteAmountOf(isVIP) == IF isVIP THEN 500 ELSE 1

\* startingVotes: the weight of the submission itself.
startingVotesOf(isSubmissionVIP) == IF isSubmissionVIP THEN 10000 ELSE 1

\* Math.ceil(n / 2)
ceilHalf(n) == -((-n) \div 2)

\* Math.max
max(a, b) == IF a >= b THEN a ELSE b

\* votesNeeded without the share of the submission's votes.
votesNeededFixed(submissionVotes) == 2

\* The votes a category needs over the current one to replace it.
votesNeeded(submissionVotes) == max(ceilHalf(submissionVotes), 2)

\* The condition under which the segment's category is replaced.
readyToChange(nextCategoryCount, currentCategoryCount, submissionVotes, isVIP, isOwnSubmission) ==
    \/ nextCategoryCount - currentCategoryCount >= votesNeeded(submissionVotes)
    \/ isVIP
    \/ isOwnSubmission

\* select count(*) as votes, category ... group by category, read with
\* 'get': one of the groups of the voter's rows, in no specified order.
usersLastVoteInfoOf(table, userID) ==
    LET mine == {r \in DOMAIN table : r.UUID = SegmentUUID /\ r.userID = userID}
    IN IF mine = {} THEN {undefined}
       ELSE {<<[votes |-> SumOver(table, {r \in mine : r.category = c}),
                category |-> c]>> : c \in {r.category : r \in mine}}

\* select votes from "categoryVotes" where category = ?
categoryInfoOf(table, category) ==
    IF category \in DOMAIN table THEN <<[votes |-> table[category]]>>
    ELSE undefined

\* "Add the vote": update the category's row, or insert it.
addCategoryVote(table, category, voteAmount) ==
    IF category \in DOMAIN table
    THEN [table EXCEPT ![category] = @ + voteAmount]
    ELSE table @@ (category :> voteAmount)

\* "Reverse the previous vote": an update, of the row if there is one.
reverseCategoryVote(table, category, voteAmount) ==
    IF category \in DOMAIN table
    THEN [table EXCEPT ![category] = @ - voteAmount]
    ELSE table

\* The voter's record in the private store: their rows are moved to the
\* category when the get found a group, a row is inserted otherwise.
recordCategoryVote(table, usersLastVoteInfo, userID, category) ==
    IF usersLastVoteInfo # undefined /\ usersLastVoteInfo[1].votes > 0
    THEN Update(table, [r \in DOMAIN table |->
             IF r.userID = userID /\ r.UUID = SegmentUUID
             THEN [r EXCEPT !.category = category] ELSE r])
    ELSE Insert(table, [UUID |-> SegmentUUID, userID |-> userID,
                        category |-> category])

\* currentCategoryCount: the row's votes, or startingVotes without a row.
currentCategoryCountOf(currentCategoryInfo, startingVotes) ==
    IF currentCategoryInfo = undefined THEN startingVotes
    ELSE currentCategoryInfo[1].votes

\* nextCategoryCount: (nextCategoryInfo?.votes || 0) + voteAmount
nextCategoryCountOf(nextCategoryInfo, voteAmount) ==
    (IF nextCategoryInfo = undefined THEN 0 ELSE nextCategoryInfo[1].votes)
        + voteAmount

\* ------------------------------------------------------------ the handler
\* The tables no request of this handler writes.
Registries == <<submitters, vipUsers, lockCategories, warnings,
                shadowBannedUsers>>

\* res.status(...).send(...): the response and the bookkeeping of the
\* request (what it asked, whether it reached its writes, what it read).
respond(paramUserID, ip, type, category, status, wrote, votesRow) ==
    /\ last' = [userID |-> paramUserID, ip |-> ip, type |-> type,
                category |-> category, status |-> status, wrote |-> wrote,
                before |-> sponsorTimes, votesRow |-> votesRow]
    /\ requests' = requests + 1

\* categoryVote(UUID, userID, isVIP, isOwnSubmission, category, hashedIP,
\* finalResponse, res)
categoryVote(paramUserID, ip, userID, isVIP, isOwnSubmission, category, finalStatus) ==
    \E usersLastVoteInfo \in usersLastVoteInfoOf(privateCategoryVotes, userID) :
      IF usersLastVoteInfo # undefined /\ usersLastVoteInfo[1].category = category
      THEN \* double vote, ignore
           /\ respond(paramUserID, ip, undefined, <<category>>, finalStatus, FALSE,
                      undefined)
           /\ UNCHANGED <<sponsorTimes, votes, categoryVotes,
                          privateCategoryVotes, contribution>>
      ELSE IF category \notin categoryList \/ category \notin SkippableCategories
      THEN /\ respond(paramUserID, ip, undefined, <<category>>, 400, FALSE, undefined)
           /\ UNCHANGED <<sponsorTimes, votes, categoryVotes,
                          privateCategoryVotes, contribution>>
      ELSE
        LET videoInfo == sponsorTimes
            nextCategoryInfo == categoryInfoOf(categoryVotes, category)
            voteAmount == voteAmountOf(isVIP)
            added == addCategoryVote(categoryVotes, category, voteAmount)
            reversed ==
                IF usersLastVoteInfo # undefined /\ usersLastVoteInfo[1].votes > 0
                THEN reverseCategoryVote(added, usersLastVoteInfo[1].category,
                                         voteAmount)
                ELSE added
            recorded == recordCategoryVote(privateCategoryVotes,
                                           usersLastVoteInfo, userID, category)
            currentCategoryInfo == categoryInfoOf(reversed, videoInfo.category)
            submissionInfo == sponsorTimes
            isSubmissionVIP == submissionInfo.userID \in vipUsers
            startingVotes == startingVotesOf(isSubmissionVIP)
            currentCategoryCount ==
                currentCategoryCountOf(currentCategoryInfo, startingVotes)
            seed == currentCategoryInfo = undefined
            nextCategoryCount == nextCategoryCountOf(nextCategoryInfo, voteAmount)
        IN /\ categoryVotes' =
                 IF seed
                 THEN reversed @@ (videoInfo.category :> currentCategoryCount)
                 ELSE reversed
           /\ privateCategoryVotes' =
                 IF seed
                 THEN Insert(recorded, [UUID |-> SegmentUUID,
                                        userID |-> submissionInfo.userID,
                                        category |-> videoInfo.category])
                 ELSE recorded
           /\ sponsorTimes' =
                 IF readyToChange(nextCategoryCount, currentCategoryCount,
                                  submissionInfo.votes, isVIP, isOwnSubmission)
                 THEN [sponsorTimes EXCEPT !.category = category]
                 ELSE sponsorTimes
           /\ respond(paramUserID, ip, undefined, <<category>>, finalStatus, TRUE,
                      undefined)
           /\ UNCHANGED <<votes, contribution>>

\* The score path of voteOnSponsorTime, from the hidden-segment check on.
scoreVote(paramUserID, ip, nonAnonUserID, userID, hashedIP, isVIP, isOwnSubmission, type, finalStatus) ==
    LET hidden == hiddenSegmentCheck(type, isVIP, isOwnSubmission,
                                     sponsorTimes.votes)
        unchanged == UNCHANGED <<sponsorTimes, votes, categoryVotes,
                                 privateCategoryVotes, contribution>>
    IN
    IF hidden # undefined
    THEN respond(paramUserID, ip, <<type>>, undefined, hidden[1], FALSE, undefined)
         /\ unchanged
    ELSE IF rejectedByWarnings(warnings[nonAnonUserID])
    THEN respond(paramUserID, ip, <<type>>, undefined, 403, FALSE, undefined)
         /\ unchanged
    ELSE
      \E votesRow \in Get(votes, {r \in DOMAIN votes :
                              r.userID = userID /\ r.UUID = SegmentUUID}) :
        IF type \notin RecognisedTypes
        THEN respond(paramUserID, ip, <<type>>, undefined, 400, FALSE, votesRow)
             /\ unchanged
        ELSE
          LET voteTypeEnum == voteTypeEnumOf(type)
              oldIncrementAmount == oldIncrementAmountOf(votesRow, type)
              videoInfo == sponsorTimes
              incrementAmount ==
                  scaledIncrementAmount(type, isVIP \/ isOwnSubmission,
                                        oldIncrementAmount, videoInfo.votes)
              newType == storedTypeOf(type, isVIP \/ isOwnSubmission,
                                      incrementAmount)
              hasSubmitted == \/ nonAnonUserID = sponsorTimes.userID
                              \/ nonAnonUserID \in submitters
              sameIPVote == \E r \in DOMAIN votes :
                              /\ r.UUID = SegmentUUID
                              /\ r.hashedIP = hashedIP
                              /\ r.userID # userID
              ableToVote ==
                  ableToVoteScore(isVIP, isOwnSubmission, incrementAmount,
                                  hasSubmitted,
                                  nonAnonUserID \in shadowBannedUsers,
                                  sameIPVote, finalStatus)
          IN IF ableToVote
             THEN /\ votes' = recordVote(votes, votesRow, userID, hashedIP,
                                         newType)
                  /\ sponsorTimes' = applyVote(sponsorTimes, voteTypeEnum, isVIP,
                                               incrementAmount,
                                               oldIncrementAmount)
                  /\ contribution' =
                        [contribution EXCEPT ![paramUserID] =
                            @ + sponsorTimes'.votes - sponsorTimes.votes]
                  /\ respond(paramUserID, ip, <<type>>, undefined, finalStatus, TRUE,
                             votesRow)
                  /\ UNCHANGED <<categoryVotes, privateCategoryVotes>>
             ELSE respond(paramUserID, ip, <<type>>, undefined, finalStatus, FALSE,
                          votesRow)
                  /\ unchanged

\* voteOnSponsorTime(req, res): one request, from its parameters to its
\* response.
voteOnSponsorTime(paramUserID, type, category, ip) ==
    /\ UNCHANGED Registries
    /\ UNCHANGED inflight
    /\ IF type = undefined /\ category = undefined
       THEN \* invalid request
            /\ respond(paramUserID, ip, type, category, 400, FALSE, undefined)
            /\ UNCHANGED <<sponsorTimes, votes, categoryVotes,
                           privateCategoryVotes, contribution>>
       ELSE
         LET nonAnonUserID == getHash(paramUserID)
             userID == getHash(<<paramUserID, SegmentUUID>>)
             hashedIP == getHash(ip)
             isVIP == nonAnonUserID \in vipUsers
             isOwnSubmission == sponsorTimes.userID = nonAnonUserID
             isSegmentLocked == sponsorTimes.locked # 0
             isVideoLocked == sponsorTimes.category \in lockCategories
             finalStatus == lockCheck(isVIP, type, isSegmentLocked,
                                      isVideoLocked)
         IN IF type = undefined
            THEN categoryVote(paramUserID, ip, nonAnonUserID, isVIP,
                              isOwnSubmission, category[1], finalStatus)
            ELSE scoreVote(paramUserID, ip, nonAnonUserID, userID, hashedIP,
                           isVIP, isOwnSubmission, type[1], finalStatus)

\* ------------------------------------------------------------ requests
\* The query parameters of a request: a vote kind, a category, or neither.
RequestParams ==
    {<<(<<t>>), undefined>> : t \in VoteTypeCodes}
        \cup {<<undefined, (<<c>>)>> : c \in CategoryParams}
        \cup {<<undefined, undefined>>}

\* ---------------------------------------------------------- specification
Init ==
    /\ \E score \in StartingScores :
         sponsorTimes = [UUID |-> SegmentUUID, userID |-> getHash("owner"),
                         votes |-> score, incorrectVotes |-> 0, locked |-> 0,
                         category |-> SubmittedCategory]
    /\ submitters = {getHash("u1"), getHash("u2")}
    /\ vipUsers \in {{getHash("vip")}, {getHash("vip"), getHash("owner")}}
    /\ lockCategories = {}
    /\ warnings = [u \in UserIDs |-> 0]
    /\ shadowBannedUsers = {}
    /\ votes = << >>
    /\ categoryVotes = << >>
    /\ privateCategoryVotes = << >>
    /\ last = [userID |-> "", ip |-> "", type |-> undefined, category |-> undefined,
               status |-> 0, wrote |-> FALSE, before |-> sponsorTimes,
               votesRow |-> undefined]
    /\ contribution = [u \in Users |-> 0]
    /\ requests = 0
    /\ inflight = << >>

\* Any request.
Next ==
    /\ requests < MaxRequests
    /\ \E paramUserID \in Users, params \in RequestParams :
       \E ip \in IPAddressesOf(paramUserID) :
         voteOnSponsorTime(paramUserID, params[1], params[2], ip)

Spec == Init /\ [][Next]_vars

\* Score votes only.
NextScore ==
    /\ requests < MaxScoreRequests
    /\ \E paramUserID \in Users, type \in VoteTypeCodes :
       \E ip \in IPAddressesOf(paramUserID) :
         voteOnSponsorTime(paramUserID, <<type>>, undefined, ip)

SpecScore == Init /\ [][NextScore]_vars

\* Category votes only.
NextCategory ==
    /\ requests < MaxCategoryRequests
    /\ \E paramUserID \in Users, category \in CategoryParams :
       \E ip \in IPAddressesOf(paramUserID) :
         voteOnSponsorTime(paramUserID, undefined, <<category>>, ip)

SpecCategory == Init /\ [][NextCategory]_vars

\* The moderation registries the behaviour can start from: the video's
\* category locked or not, and at most one of: u1 or the VIP holding the
\* maximum of active warnings, u1 shadow-banned, u1 without a submission.
ModerationCases ==
    LET clean == [locked |-> {}, warned |-> {}, banned |-> {},
                  submitters |-> {getHash("u1"), getHash("u2")}]
    IN UNION {
         {[clean EXCEPT !.locked = l, !.warned = w] :
             w \in {{}, {getHash("u1")}, {getHash("vip")}}}
         \cup {[clean EXCEPT !.locked = l, !.banned = {getHash("u1")}],
               [clean EXCEPT !.locked = l, !.submitters = {getHash("u2")}]}
         : l \in {{}, {SubmittedCategory}}}

\* As Init, with the registries of one of the moderation cases.
InitModerated ==
    /\ \E score \in StartingScores :
         sponsorTimes = [UUID |-> SegmentUUID, userID |-> getHash("owner"),
                         votes |-> score, incorrectVotes |-> 0, locked |-> 0,
                         category |-> SubmittedCategory]
    /\ vipUsers = {getHash("vip")}
    /\ \E case \in ModerationCases :
         /\ submitters = case.submitters
         /\ lockCategories = case.locked
         /\ warnings = [u \in UserIDs |->
                          IF u \in case.warned
                          THEN maxNumberOfActiveWarnings ELSE 0]
         /\ shadowBannedUsers = case.banned
    /\ votes = << >>
    /\ categoryVotes = << >>
    /\ privateCategoryVotes = << >>
    /\ last = [userID |-> "", ip |-> "", type |-> undefined, category |-> undefined,
               status |-> 0, wrote |-> FALSE, before |-> sponsorTimes,
               votesRow |-> undefined]
    /\ contribution = [u \in Users |-> 0]
    /\ requests = 0
    /\ inflight = << >>

\* Any request, on a store with moderation registries.
SpecModerated == InitModerated /\ [][Next]_vars

\* The categories a segment can have been submitted with: a skippable one,
\* or the configured category that is not skippable.
SubmittedCategories == {SubmittedCategory, "highlight"}

\* As Init, with a segment of any of the submitted categories.
InitSubmitted ==
    /\ \E score \in StartingScores, category \in SubmittedCategories :
         sponsorTimes = [UUID |-> SegmentUUID, userID |-> getHash("owner"),
                         votes |-> score, incorrectVotes |-> 0, locked |-> 0,
                         category |-> category]
    /\ submitters = {getHash("u1"), getHash("u2")}
    /\ vipUsers \in {{getHash("vip")}, {getHash("vip"), getHash("owner")}}
    /\ lockCategories = {}
    /\ warnings = [u \in UserIDs |-> 0]
    /\ shadowBannedUsers = {}
    /\ votes = << >>
    /\ categoryVotes = << >>
    /\ privateCategoryVotes = << >>
    /\ last = [userID |-> "", ip |-> "", type |-> undefined, category |-> undefined,
               status |-> 0, wrote |-> FALSE, before |-> sponsorTimes,
               votesRow |-> undefined]
    /\ contribution = [u \in Users |-> 0]
    /\ requests = 0
    /\ inflight = << >>

\* Any request, on a segment of any of the submitted categories.
SpecSubmitted == InitSubmitted /\ [][Next]_vars

\* ------------------------------------------------- the handler, by steps
\* A score vote handled one store operation at a time: every await of
\* voteOnSponsorTime is a point where the steps of another request can
\* run. A step is one store operation and the code that follows it up to
\* the next one; pc names the operation the request is waiting to make.

\* The request ends with the response of the given status.
finish(request, status) == [request EXCEPT !.pc = "done", !.status = status]

\* The warning check, which follows the hidden-segment check: the request
\* is answered 403, or goes on to read its ledger row.
warningCheck(request) ==
    IF rejectedByWarnings(warnings[getHash(request.userID)])
    THEN finish(request, 403)
    ELSE [request EXCEPT !.pc = "votesRow"]

\* The steps leave alone what only whole requests and category votes write.
ScoreStepFrame ==
    UNCHANGED <<Registries, categoryVotes, privateCategoryVotes, last,
                contribution, requests>>

\* The request arrives: identity, isVIP, isOwnSubmission and the lock check.
beginVote(paramUserID, type, ip) ==
    LET nonAnonUserID == getHash(paramUserID)
        isVIP == nonAnonUserID \in vipUsers
        isOwnSubmission == sponsorTimes.userID = nonAnonUserID
        finalStatus == lockCheck(isVIP, <<type>>, sponsorTimes.locked # 0,
                                 sponsorTimes.category \in lockCategories)
        request == [userID |-> paramUserID, ip |-> ip, type |-> type,
                    pc |-> "voteInfo", finalStatus |-> finalStatus,
                    status |-> 0, votesRow |-> undefined, videoInfoVotes |-> 0,
                    incrementAmount |-> 0, oldIncrementAmount |-> 0,
                    newType |-> type, ableToVote |-> FALSE,
                    wroteLedger |-> FALSE, staleRow |-> FALSE,
                    counted |-> FALSE, delta |-> 0]
    IN /\ Len(inflight) < MaxInFlight
       /\ inflight' = Append(inflight,
                             IF isVIP \/ isOwnSubmission
                             THEN warningCheck(request) ELSE request)
       /\ UNCHANGED <<sponsorTimes, votes>>
       /\ ScoreStepFrame

\* voteInfo: the score read for the hidden-segment check.
readVoteInfo(i) ==
    LET request == inflight[i]
        hidden == hiddenSegmentCheck(request.type, FALSE, FALSE,
                                     sponsorTimes.votes)
    IN /\ request.pc = "voteInfo"
       /\ inflight' = [inflight EXCEPT ![i] =
                          IF hidden # undefined THEN finish(request, hidden[1])
                          ELSE warningCheck(request)]
       /\ UNCHANGED <<sponsorTimes, votes>>
       /\ ScoreStepFrame

\* votesRow: the voter's ledger row, and the two weights computed from the
\* vote kind and from the row.
readVotesRow(i) ==
    LET request == inflight[i]
        userID == getHash(<<request.userID, SegmentUUID>>)
    IN /\ request.pc = "votesRow"
       /\ \E votesRow \in Get(votes, {r \in DOMAIN votes :
                               r.userID = userID /\ r.UUID = SegmentUUID}) :
            inflight' = [inflight EXCEPT ![i] =
                IF request.type \notin RecognisedTypes
                THEN finish(request, 400)
                ELSE [request EXCEPT
                        !.pc = "videoInfo",
                        !.votesRow = votesRow,
                        !.oldIncrementAmount =
                            oldIncrementAmountOf(votesRow, request.type)]]
       /\ UNCHANGED <<sponsorTimes, votes>>
       /\ ScoreStepFrame

\* videoInfo: the segment's score, and the privilege rules on the weight.
readVideoInfo(i) ==
    LET request == inflight[i]
        nonAnonUserID == getHash(request.userID)
        privileged == \/ nonAnonUserID \in vipUsers
                      \/ sponsorTimes.userID = nonAnonUserID
        incrementAmount ==
            scaledIncrementAmount(request.type, privileged,
                                  request.oldIncrementAmount,
                                  sponsorTimes.votes)
    IN /\ request.pc = "videoInfo"
       /\ inflight' = [inflight EXCEPT ![i] =
                          [request EXCEPT
                             !.pc = "ableToVote",
                             !.videoInfoVotes = sponsorTimes.votes,
                             !.incrementAmount = incrementAmount,
                             !.newType = storedTypeOf(request.type, privileged,
                                                      incrementAmount)]]
       /\ UNCHANGED <<sponsorTimes, votes>>
       /\ ScoreStepFrame

\* ableToVote: the reads of the eligibility checks; without the
\* permission the request is answered with finalStatus.
readAbleToVote(i) ==
    LET request == inflight[i]
        nonAnonUserID == getHash(request.userID)
        userID == getHash(<<request.userID, SegmentUUID>>)
        hashedIP == getHash(request.ip)
        sameIPVote == \E r \in DOMAIN votes :
                        /\ r.UUID = SegmentUUID
                        /\ r.hashedIP = hashedIP
                        /\ r.userID # userID
        ableToVote ==
            ableToVoteScore(nonAnonUserID \in vipUsers,
                            sponsorTimes.userID = nonAnonUserID,
                            request.incrementAmount,
                            \/ nonAnonUserID = sponsorTimes.userID
                            \/ nonAnonUserID \in submitters,
                            nonAnonUserID \in shadowBannedUsers,
                            sameIPVote, request.finalStatus)
    IN /\ request.pc = "ableToVote"
       /\ inflight' = [inflight EXCEPT ![i] =
                          IF ableToVote
                          THEN [request EXCEPT !.pc = "ledger",
                                               !.ableToVote = TRUE]
                          ELSE finish(request, request.finalStatus)]
       /\ UNCHANGED <<sponsorTimes, votes>>
       /\ ScoreStepFrame

\* ledger: the update or the insert of the voter's row, chosen by the row
\* the request read; staleRow notes that the ledger no longer holds it.
writeLedger(i) ==
    LET request == inflight[i]
        userID == getHash(<<request.userID, SegmentUUID>>)
        current == Get(votes, {r \in DOMAIN votes :
                                 r.userID = userID /\ r.UUID = SegmentUUID})
    IN /\ request.pc = "ledger"
       /\ votes' = recordVote(votes, request.votesRow,
                              getHash(<<request.userID, SegmentUUID>>),
                              getHash(request.ip), request.newType)
       /\ inflight' = [inflight EXCEPT ![i] =
                          [request EXCEPT
                             !.pc = "counter",
                             !.wroteLedger = TRUE,
                             !.staleRow = request.votesRow \notin current]]
       /\ UNCHANGED sponsorTimes
       /\ ScoreStepFrame

\* The lock rule that applies to the request, if any: <<locked>>.
lockRule(request) ==
    LET isVIP == getHash(request.userID) \in vipUsers
        normal == voteTypeEnumOf(request.type) = voteTypesNormal
    IN IF isVIP /\ request.incrementAmount > 0 /\ normal THEN <<1>>
       ELSE IF isVIP /\ request.incrementAmount < 0 /\ normal THEN <<0>>
       ELSE undefined

\* The request after its counter update: on to the lock rule, or answered.
afterCounter(request, delta) ==
    LET counted == [request EXCEPT !.counted = TRUE, !.delta = delta]
    IN IF lockRule(request) # undefined
       THEN [counted EXCEPT !.pc = "lock"]
       ELSE finish(counted, request.finalStatus)

\* The counter update as a read-then-overwrite from the score read for
\* videoInfo.
writeCounterOverwrite(i) ==
    LET request == inflight[i]
        delta == request.incrementAmount - request.oldIncrementAmount
        column == columnNameOf(voteTypeEnumOf(request.type))
    IN /\ request.pc = "counter"
       /\ sponsorTimes' =
             [sponsorTimes EXCEPT ![column] =
                 IF column = "votes" THEN request.videoInfoVotes + delta
                 ELSE @ + delta]
       /\ inflight' = [inflight EXCEPT ![i] = afterCounter(request, delta)]
       /\ UNCHANGED votes
       /\ ScoreStepFrame

\* counter: SET column = column + (incrementAmount - oldIncrementAmount)
writeCounter(i) ==
    LET request == inflight[i]
        delta == request.incrementAmount - request.oldIncrementAmount
        column == columnNameOf(voteTypeEnumOf(request.type))
    IN /\ request.pc = "counter"
       /\ sponsorTimes' = [sponsorTimes EXCEPT ![column] = @ + delta]
       /\ inflight' = [inflight EXCEPT ![i] = afterCounter(request, delta)]
       /\ UNCHANGED votes
       /\ ScoreStepFrame

\* lock: SET locked = 1 or 0 after the vote of a VIP, then the response.
writeLock(i) ==
    LET request == inflight[i]
    IN /\ request.pc = "lock"
       /\ sponsorTimes' = [sponsorTimes EXCEPT !.locked = lockRule(request)[1]]
       /\ inflight' = [inflight EXCEPT ![i] =
                          finish(request, request.finalStatus)]
       /\ UNCHANGED votes
       /\ ScoreStepFrame

\* The store operations made inside the try block.
TryBlock == {"votesRow", "videoInfo", "ableToVote", "ledger", "counter", "lock"}

\* A store operation of the try block throws: the catch answers 500.
storeFailure(i) ==
    LET request == inflight[i]
    IN /\ request.pc \in TryBlock
       /\ inflight' = [inflight EXCEPT ![i] = finish(request, 500)]
       /\ UNCHANGED <<sponsorTimes, votes>>
       /\ ScoreStepFrame

\* The callers and the vote kinds of the interleaved requests: a voter who
\* is neither VIP nor owner and the VIP; plain votes, an incorrect-report
\* and the undo.
ConcurrentUsers == {"u1", "vip"}
ConcurrentVoteTypes == {1, 0, 11, 20}

\* Score votes whose steps interleave.
NextConcurrent ==
    \/ \E paramUserID \in ConcurrentUsers, type \in ConcurrentVoteTypes :
       \E ip \in IPAddressesOf(paramUserID) :
         beginVote(paramUserID, type, ip)
    \/ \E i \in DOMAIN inflight :
         \/ readVoteInfo(i)
         \/ readVotesRow(i)
         \/ readVideoInfo(i)
         \/ readAbleToVote(i)
         \/ writeLedger(i)
         \/ writeCounter(i)
         \/ writeLock(i)

\* The interleaved requests start from a store where only "vip" is VIP.
InitConcurrent == Init /\ vipUsers = {getHash("vip")}

SpecConcurrent == InitConcurrent /\ [][NextConcurrent]_vars

\* Interleaved score votes whose store operations can fail.
NextFailing ==
    \/ NextConcurrent
    \/ \E i \in DOMAIN inflight : storeFailure(i)

SpecFailing == InitConcurrent /\ [][NextFailing]_vars

\* ------------------------------------------------------------- the callers
\* The caller is on the VIP list.
IsVIP(paramUserID) == getHash(paramUserID) \in vipUsers

\* The caller submitted the segment.
IsOwner(paramUserID) == getHash(paramUserID) = sponsorTimes.userID

\* A caller who is neither VIP nor the segment's owner.
IsOrdinary(paramUserID) ==
    paramUserID \in Users /\ ~IsVIP(paramUserID) /\ ~IsOwner(paramUserID)

\* The ledger rows of the caller for the segment.
LedgerRowsOf(paramUserID) ==
    {r \in DOMAIN votes : /\ r.UUID = SegmentUUID
                          /\ r.userID = getHash(<<paramUserID, SegmentUUID>>)}

\* The five vote kinds of the interface.
VoteKinds == {<<1>>, <<0>>, <<11>>, <<10>>, <<20>>}

\* ------------------------------------------------------------------ claims

\* C1: when the same voter casts the identical score vote (1, 0, 11, 10 or
\* 20) twice in succession, whatever their privilege, the second vote
\* changes neither the score counter nor the incorrect counter.
C1_SecondIdenticalVoteChangesNoCounter ==
    [][(/\ last'.type \in VoteKinds
        /\ last'.type = last.type
        /\ last'.userID = last.userID
        /\ last'.ip = last.ip)
       => /\ sponsorTimes'.votes = sponsorTimes.votes
          /\ sponsorTimes'.incorrectVotes = sponsorTimes.incorrectVotes]_vars

\* C2: when an eligible voter who is neither VIP nor owner, whose recorded
\* vote is a plain downvote, casts a plain upvote that is applied, the
\* score rises by exactly 2 and their ledger record becomes the upvote.
C2_SwingFromDownToUp ==
    (/\ last.type = <<1>>
     /\ last.wrote
     /\ IsOrdinary(last.userID)
     /\ last.votesRow # undefined
     /\ last.votesRow[1].type = 0)
    => /\ sponsorTimes.votes = last.before.votes + 2
       /\ \A r \in LedgerRowsOf(last.userID) : r.type = 1
       /\ Count(votes, LedgerRowsOf(last.userID)) = 1

\* C2 witness: an applied upvote of u1 over u1's recorded plain downvote.
C2_Witness ==
    /\ last.type = <<1>>
    /\ last.wrote
    /\ IsOrdinary(last.userID)
    /\ last.votesRow # undefined
    /\ last.votesRow[1].type = 0
    /\ last.status = 200

\* The weight of the vote of the last request on the score counter: its
\* incrementAmount for a plain vote, 0 for an undo or an incorrect-report.
WeightOfLastVote ==
    LET type == last.type[1]
        privileged == IsVIP(last.userID) \/ IsOwner(last.userID)
    IN IF type = 1 THEN 1
       ELSE IF type = 0
       THEN IF privileged
            THEN -(last.before.votes + 2
                   - oldIncrementAmountOf(last.votesRow, type))
            ELSE -1
       ELSE 0

\* C3: after an applied score vote, the voter's net contribution to the
\* score counter is the weight of that vote alone: 0 after an undo or an
\* incorrect-report vote, whatever they had voted before.
C3_ContributionIsLatestVote ==
    (last.type \in VoteKinds /\ last.wrote)
    => contribution[last.userID] = WeightOfLastVote

\* C4: right after an applied plain downvote of a VIP or of the owner the
\* score is -2, whatever the score and the voter's record were before; and
\* a plain downvote of a voter who is neither, made on the score such a
\* downvote leaves, does not lower it.
C4_PrivilegedDownvoteFloor ==
    /\ (/\ last.type = <<0>>
        /\ last.wrote
        /\ (IsVIP(last.userID) \/ IsOwner(last.userID)))
       => sponsorTimes.votes = -2
    /\ (/\ last.type = <<0>>
        /\ IsOrdinary(last.userID)
        /\ last.before.votes = -2)
       => sponsorTimes.votes = -2

\* C4 witness: a plain downvote of an ordinary voter on a segment that the
\* computed downvote of a VIP or of the owner has brought to the floor.
C4_Witness ==
    /\ last.type = <<0>>
    /\ IsOrdinary(last.userID)
    /\ last.before.votes = -2
    /\ sponsorTimes.votes = -2
    /\ \E u \in Users :
         /\ IsVIP(u) \/ IsOwner(u)
         /\ \E r \in LedgerRowsOf(u) : r.type < -1

\* The state the worked example starts its second step from: one request
\* so far, the applied plain upvote of an ordinary voter on a fresh segment
\* (score 0, unlocked), and now the plain downvote of a VIP without a record.
ExampleVIPDownvote ==
    /\ requests = 2
    /\ last.type = <<0>>
    /\ IsVIP(last.userID)
    /\ ~IsOwner(last.userID)
    /\ last.wrote
    /\ last.votesRow = undefined
    /\ last.before.votes = 1
    /\ last.before.locked = 0
    /\ \E u \in Users :
         /\ IsOrdinary(u)
         /\ contribution[u] = 1
         /\ \E r \in LedgerRowsOf(u) : r.type = 1

\* The first step of the worked example: on a fresh segment the plain
\* upvote of an ordinary voter makes the score 1, records type 1 and leaves
\* the lock as it was.
ExampleUpvote ==
    (/\ requests = 1
     /\ last.type = <<1>>
     /\ IsOrdinary(last.userID)
     /\ last.wrote
     /\ last.before.votes = 0)
    => /\ sponsorTimes.votes = 1
       /\ \A r \in LedgerRowsOf(last.userID) : r.type = 1
       /\ LedgerRowsOf(last.userID) # {}
       /\ sponsorTimes.locked = last.before.locked

\* C5 as stated: after the example's upvote, the plain downvote of a VIP
\* makes the score -(1 + 2 - 0) = -3 and clears the lock.
C5_ExampleAsStated ==
    /\ ExampleUpvote
    /\ ExampleVIPDownvote
       => (sponsorTimes.votes = -3 /\ sponsorTimes.locked = 0)

\* C5 amended: after the example's upvote, the plain downvote of a VIP has
\* the weight -(1 + 2 - 0) = -3, which is what the ledger records and what
\* is added to the score of 1: the score becomes -2, and the lock is clear.
C5_ExampleAmended ==
    /\ ExampleUpvote
    /\ ExampleVIPDownvote
       => /\ sponsorTimes.votes = -2
          /\ sponsorTimes.locked = 0
          /\ \A r \in LedgerRowsOf(last.userID) : r.type = -3
          /\ LedgerRowsOf(last.userID) # {}

\* C5 witness: the state after the two votes of the example.
C5_Witness == ExampleVIPDownvote /\ sponsorTimes.incorrectVotes = 0

\* C6: on a segment whose score is <= -2, the plain upvote of a voter who
\* is neither VIP nor owner is answered 403 and their plain downvote 200,
\* and neither changes the ledger, the counters, the lock or the category
\* state.
C6_HiddenSegmentGate ==
    [][(/\ sponsorTimes.votes <= -2
        /\ IsOrdinary(last'.userID)
        /\ last'.type \in {<<1>>, <<0>>})
       => /\ last'.status = (IF last'.type = <<1>> THEN 403 ELSE 200)
          /\ UNCHANGED <<sponsorTimes, votes, categoryVotes,
                         privateCategoryVotes>>]_vars

\* C6 witness: an ordinary voter's upvote rejected on a segment at the
\* threshold, which an earlier request has brought there.
C6_Witness ==
    /\ last.type = <<1>>
    /\ IsOrdinary(last.userID)
    /\ last.before.votes = -2
    /\ last.status = 403
    /\ ~last.wrote
    /\ votes # << >>

\* C7: the ledger holds at most one row per (segment, voter); a repeat
\* vote that is applied leaves the voter with exactly one row.
C7_LedgerUniqueness ==
    /\ \A u \in Users :
         Count(votes, LedgerRowsOf(u)) <= 1
    /\ (last.type # undefined /\ last.wrote)
       => Count(votes, LedgerRowsOf(last.userID)) = 1

\* C7 witness: an applied vote of a voter who already had a row.
C7_Witness ==
    /\ last.type # undefined
    /\ last.wrote
    /\ last.votesRow # undefined
    /\ last.votesRow[1].type # last.type[1]
    /\ Count(votes, LedgerRowsOf(last.userID)) = 1

\* The tally of a category: the votes of its row, 0 without a row.
TallyOf(table, category) ==
    IF category \in DOMAIN table THEN table[category] ELSE 0

\* The submitter's baseline: 10000 when the owner is VIP, else 1.
Baseline == IF sponsorTimes.userID \in vipUsers THEN 10000 ELSE 1

\* The tally of the incumbent category, the baseline when it has no row.
IncumbentTallyOf(table, category) ==
    IF category \in DOMAIN table THEN table[category] ELSE Baseline

\* The voter's rows in the per-voter category store.
CategoryRowsOf(paramUserID) ==
    {r \in DOMAIN privateCategoryVotes :
        r.UUID = SegmentUUID /\ r.userID = getHash(paramUserID)}

\* The last request of the step is a category vote of an ordinary voter
\* for the valid category, and the category is replaced exactly when the
\* margin of its tally over the incumbent's reaches max(ceil(V / 2), 2).
ReplacedIffMarginReached(category) ==
    LET margin == TallyOf(categoryVotes', category)
                  - IncumbentTallyOf(categoryVotes', sponsorTimes.category)
    IN (sponsorTimes'.category = category /\ sponsorTimes.category # category)
       <=> (margin >= 2 /\ 2 * margin >= sponsorTimes.votes)

\* C8 as stated: a category vote for a valid category by a voter who is
\* neither VIP nor owner replaces the segment's category if and only if the
\* category's tally after the vote exceeds the incumbent's (the baseline
\* when it has no row) by at least max(ceil(V / 2), 2); the first vote of
\* weight 1 on a segment never replaces it.
C8_ThresholdAsStated ==
    [][\A category \in SkippableCategories :
         (last'.category = <<category>> /\ IsOrdinary(last'.userID))
         => /\ ReplacedIffMarginReached(category)
            /\ categoryVotes = << >>
               => sponsorTimes'.category = sponsorTimes.category]_vars

\* C8 amended: the same, for a vote that is not a repeat of the category
\* the voter's record already names; a repeat is ignored, and changes
\* neither the tallies nor the category, whatever the margin is.
C8_ThresholdAmended ==
    [][\A category \in SkippableCategories :
         (last'.category = <<category>> /\ IsOrdinary(last'.userID))
         => IF \E r \in CategoryRowsOf(last'.userID) : r.category = category
            THEN UNCHANGED <<sponsorTimes, categoryVotes,
                             privateCategoryVotes>>
            ELSE /\ ReplacedIffMarginReached(category)
                 /\ categoryVotes = << >>
                    => sponsorTimes'.category = sponsorTimes.category]_vars

\* C8 witness: the vote of an ordinary voter that replaced the category.
C8_Witness ==
    /\ last.category # undefined
    /\ IsOrdinary(last.userID)
    /\ last.wrote
    /\ sponsorTimes.category = last.category[1]
    /\ last.before.category # last.category[1]

\* C9: whenever a VIP or the owner casts a category vote for a valid
\* category, the segment has that category when the request ends, also
\* when the per-voter store already holds a record of theirs for it.
C9_PrivilegedVoteWins ==
    [][\A category \in SkippableCategories :
         (/\ last'.category = <<category>>
          /\ (IsVIP(last'.userID) \/ IsOwner(last'.userID)))
         => sponsorTimes'.category = category]_vars

\* Every record of the per-voter store is of an ordinary voter, or is a
\* record of the owner for the submitted category.
OnlyOrdinaryCategoryVotes ==
    \A r \in DOMAIN privateCategoryVotes :
        \/ \E u \in Users : IsOrdinary(u) /\ r.userID = getHash(u)
        \/ r.userID = sponsorTimes.userID /\ r.category = SubmittedCategory

\* C10: while the segment keeps its submitted category, the tally of that
\* category holds the submitter's baseline on top of the votes cast for
\* it, in whatever order the categories were voted for; so the votes of
\* ordinary voters do not recategorise a segment whose owner is VIP.
C10_IncumbentBaseline ==
    /\ (/\ OnlyOrdinaryCategoryVotes
        /\ sponsorTimes.category = SubmittedCategory
        /\ SubmittedCategory \in DOMAIN categoryVotes)
       => categoryVotes[SubmittedCategory]
            >= Baseline + Count(privateCategoryVotes,
                              {r \in DOMAIN privateCategoryVotes :
                                 /\ r.category = SubmittedCategory
                                 /\ r.userID # sponsorTimes.userID})
    /\ (OnlyOrdinaryCategoryVotes /\ sponsorTimes.userID \in vipUsers)
       => sponsorTimes.category = SubmittedCategory

\* C11: the per-voter category store holds at most one record per
\* (segment, voter), the owner with the baseline record included.
C11_OneCategoryRecordPerVoter ==
    \A u \in Users : Count(privateCategoryVotes, CategoryRowsOf(u)) <= 1

\* The segment is lock-protected: its lock flag is set, or its category is
\* locked for the video.
LockProtected ==
    sponsorTimes.locked # 0 \/ sponsorTimes.category \in lockCategories

\* The request of the step is a vote: it names a vote kind or a category.
IsVote(request) == request.type \in VoteKinds \/ request.category # undefined

\* C12: when the request of a non-VIP on a lock-protected segment is not a
\* plain upvote (a downvote, an incorrect-report, an undo or a category
\* vote) and is answered 403, no persistent state changes.
C12_LockRejectionChangesNothing ==
    [][(/\ LockProtected
        /\ ~IsVIP(last'.userID)
        /\ IsVote(last')
        /\ last'.type # <<1>>
        /\ last'.status = 403)
       => UNCHANGED <<sponsorTimes, votes, categoryVotes,
                      privateCategoryVotes>>]_vars

\* The caller holds the configured maximum of active warnings.
IsWarned(paramUserID) ==
    warnings[getHash(paramUserID)] >= maxNumberOfActiveWarnings

\* C13: every vote, score or category, of a voter (VIP or not) who holds
\* the maximum of active warnings is answered 403 and changes no
\* persistent state.
C13_WarningSuspension ==
    [][(IsWarned(last'.userID) /\ IsVote(last'))
       => /\ last'.status = 403
          /\ UNCHANGED <<sponsorTimes, votes, categoryVotes,
                         privateCategoryVotes>>]_vars

\* A non-VIP caller the eligibility checks turn away: no submission, or
\* shadow-banned, or a ledger row of another voter from the same address.
IsIneligible(paramUserID, ip) ==
    /\ ~IsVIP(paramUserID)
    /\ \/ ~(IsOwner(paramUserID) \/ getHash(paramUserID) \in submitters)
       \/ getHash(paramUserID) \in shadowBannedUsers
       \/ \E r \in DOMAIN votes :
             /\ r.UUID = SegmentUUID
             /\ r.hashedIP = getHash(ip)
             /\ r.userID # getHash(<<paramUserID, SegmentUUID>>)

\* The status the moderation checks give a score vote of a non-VIP.
ModerationStatus(paramUserID, type) ==
    IF ~IsOwner(paramUserID) /\ sponsorTimes.votes <= -2 /\ type = <<1>>
    THEN 403
    ELSE IF ~IsOwner(paramUserID) /\ sponsorTimes.votes <= -2 /\ type = <<0>>
    THEN 200
    ELSE IF IsWarned(paramUserID) THEN 403
    ELSE IF LockProtected /\ type # <<1>> THEN 403
    ELSE 200

C17_VIPLockTransitions ==
    /\ (last.type = <<1>> /\ last.wrote /\ IsVIP(last.userID))
       => sponsorTimes.locked = 1
    /\ (last.type = <<0>> /\ last.wrote /\ IsVIP(last.userID))
       => sponsorTimes.locked = 0

\* The caller's plain upvote passes every check of the gate: the caller is
\* neither VIP nor owner, holds no suspending warnings, has a submission,
\* is not shadow-banned, no other voter voted from the address, and the
\* score is above -2.
PassesGate(paramUserID, ip) ==
    /\ IsOrdinary(paramUserID)
    /\ ~IsWarned(paramUserID)
    /\ ~IsIneligible(paramUserID, ip)
    /\ sponsorTimes.votes > -2

\* C18: on a lock-protected segment no request of a non-VIP (the owner
\* included) lowers the score counter, and the plain upvote of a non-VIP
\* that passes the gate is applied: answered 200, recorded as type 1, and
\* it raises the score by 1 when the voter had no row.
C18_LockPreventsErosion ==
    [][(LockProtected /\ ~IsVIP(last'.userID))
       => /\ sponsorTimes'.votes >= sponsorTimes.votes
          /\ (last'.type = <<1>> /\ PassesGate(last'.userID, last'.ip))
             => /\ last'.status = 200
                /\ last'.wrote
                /\ \E r \in DOMAIN votes' :
                     /\ r.userID = getHash(<<last'.userID, SegmentUUID>>)
                     /\ r.type = 1
                /\ LedgerRowsOf(last'.userID) = {}
                   => sponsorTimes'.votes = sponsorTimes.votes + 1]_vars

\* C18 witness: on a lock-protected segment, the downvote of a voter whose
\* row is an upvote, answered 403 with the score as it was.
C18_Witness ==
    /\ last.type = <<0>>
    /\ ~IsVIP(last.userID)
    /\ last.status = 403
    /\ LockProtected
    /\ sponsorTimes = last.before
    /\ \E r \in LedgerRowsOf(last.userID) : r.type = 1

\* The delta of the score vote of the request: its weight after the
\* privilege rules minus the weight decoded from the row it read.
DeltaOf(request, segmentVotes) ==
    LET privileged == IsVIP(request.userID) \/ IsOwner(request.userID)
        old == oldIncrementAmountOf(request.votesRow, request.type[1])
    IN scaledIncrementAmount(request.type[1], privileged, old, segmentVotes)
       - old

\* C19: a score vote whose delta is zero leaves the segment's counters,
\* its lock flag and the voter's ledger row as they were.
C19_ZeroDeltaChangesNothing ==
    [][(/\ last'.type \in VoteKinds
        /\ last'.wrote
        /\ DeltaOf(last', sponsorTimes.votes) = 0)
       => UNCHANGED <<sponsorTimes, votes>>]_vars

\* The sum of the deltas the first n interleaved requests applied to the
\* column.
RECURSIVE AppliedDeltas(_, _)
AppliedDeltas(column, n) ==
    IF n = 0 THEN 0
    ELSE (IF columnNameOf(voteTypeEnumOf(inflight[n].type)) = column
          THEN inflight[n].delta ELSE 0)
         + AppliedDeltas(column, n - 1)

\* C15: for every interleaving of score votes of one identity on the
\* segment, no request writes the ledger over a row other than the one its
\* delta was computed from, the voter keeps at most one ledger row, and
\* two first-time upvotes raise the score by 1 between them.
C15_PerVoterSerializability ==
    /\ \A i \in DOMAIN inflight :
         inflight[i].wroteLedger => ~inflight[i].staleRow
    /\ \A u \in Users : Count(votes, LedgerRowsOf(u)) <= 1
    /\ \A i, j \in DOMAIN inflight :
         (/\ i < j
          /\ inflight[i].userID = inflight[j].userID
          /\ inflight[i].type = 1 /\ inflight[j].type = 1
          /\ inflight[i].counted /\ inflight[j].counted
          /\ \A k \in DOMAIN inflight \ {i, j} :
               inflight[k].userID # inflight[i].userID)
         => inflight[i].delta + inflight[j].delta = 1

\* C16: when a score vote has ended, with a store failure and the answer
\* 500 or without, its ledger write and its counter update have both been
\* made or neither has.
C16_LedgerAndCounterTogether ==
    \A i \in DOMAIN inflight :
        inflight[i].pc = "done"
        => (inflight[i].wroteLedger <=> inflight[i].counted)

\* C20: in every interleaving of score votes, each counter of the segment
\* is its value at the start plus the sum of the deltas the requests
\* applied to it (last is not written by the steps, so last.before is the
\* row the behaviour started from).
C20_NoLostCounterUpdates ==
    /\ sponsorTimes.votes
         = last.before.votes + AppliedDeltas("votes", Len(inflight))
    /\ sponsorTimes.incorrectVotes
         = last.before.incorrectVotes
           + AppliedDeltas("incorrectVotes", Len(inflight))

\* C20 witness: two applied votes of different voters on the score
\* counter, each of which read the score before the other one wrote it.
C20_Witness ==
    \E i, j \in DOMAIN inflight :
        /\ inflight[i].userID # inflight[j].userID
        /\ inflight[i].pc = "done" /\ inflight[j].pc = "done"
        /\ inflight[i].counted /\ inflight[j].counted
        /\ inflight[i].type \in {0, 1} /\ inflight[j].type \in {0, 1}
        /\ inflight[i].delta # 0 /\ inflight[j].delta # 0
        /\ inflight[i].videoInfoVotes = last.before.votes
        /\ inflight[j].videoInfoVotes = last.before.votes

\* The sum of the weights of the records of the set: 500 for a record of a
\* VIP, 1 otherwise.
RECURSIVE WeightOver(_)
WeightOver(rows) ==
    IF rows = {} THEN 0
    ELSE LET r == CHOOSE x \in rows : TRUE
         IN privateCategoryVotes[r] * voteAmountOf(r.userID \in vipUsers)
            + WeightOver(rows \ {r})

\* The tally of the category is the sum of the weights of the records that
\* name it, where a record of the owner weighs the owner's vote or, for
\* the baseline record, the baseline.
TallyMatchesRecords(category) ==
    LET naming == {r \in DOMAIN privateCategoryVotes :
                     r.UUID = SegmentUUID /\ r.category = category}
        ofOthers == {r \in naming : r.userID # sponsorTimes.userID}
        ofOwner == Count(privateCategoryVotes, naming \ ofOthers)
        ownVote == voteAmountOf(sponsorTimes.userID \in vipUsers)
        rest == TallyOf(categoryVotes, category) - WeightOver(ofOthers)
    IN IF ofOwner = 0 THEN rest = 0
       ELSE IF ofOwner = 1 THEN rest \in {ownVote, Baseline}
       ELSE rest = ownVote + Baseline

\* C21: after any sequence of category votes, the tally of every category
\* is the sum of the weights (500 for a VIP, 1 otherwise, the baseline for
\* the owner's baseline record) of the records that name it.
C21_TallyConsistency ==
    \A category \in categoryList : TallyMatchesRecords(category)

\* The categories of a request that cannot be voted for: outside the
\* configured list, or configured and not skippable.
NotVotable == {"bogus", "highlight"}

\* The score state of the segment: the two counters, the lock flag and the
\* ledger.
ScoreStateUnchanged ==
    /\ sponsorTimes'.votes = sponsorTimes.votes
    /\ sponsorTimes'.incorrectVotes = sponsorTimes.incorrectVotes
    /\ sponsorTimes'.locked = sponsorTimes.locked
    /\ votes' = votes

====
